---- MODULE Spec2Model ----
(***************************************************************************)
(* vanitycal: expansion of anchor dates into anniversaries, countdowns and *)
(* recurring annual entries, and the duration labels attached to them.     *)
(*                                                                         *)
(* A time.Time is modelled as a whole number of hours since 0000-03-01     *)
(* 00:00 UTC.  Parsed dates are UTC midnights (multiples of HoursPerDay);  *)
(* the wall clock may carry a time of day.                                 *)
(***************************************************************************)
EXTENDS Integers, Sequences, FiniteSets, TLC

HoursPerDay == 24

(***************************************************************************)
(* Calendar arithmetic of the time package, as used by the program.        *)
(* Intermediate values are passed as operator arguments.                   *)
(***************************************************************************)

DayOfEra(yoe, doy) == yoe * 365 + yoe \div 4 - yoe \div 100 + doy

\* yy is the year that starts on March 1, mp the month counted from March.
DaysFromShifted(yy, mp, d) ==
    (yy \div 400) * 146097 + DayOfEra(yy % 400, (153 * mp + 2) \div 5 + d - 1)

\* Days since 0000-03-01 of the proleptic Gregorian date y-m-d, m in 1..12.
\* Linear in d, so a day outside the month rolls into the neighbouring months.
DaysFromCivil(y, m, d) ==
    DaysFromShifted(IF m <= 2 THEN y - 1 ELSE y, IF m > 2 THEN m - 3 ELSE m + 9, d)

CivilOfMonth(y, doy, mp) ==
    [year  |-> IF mp < 10 THEN y ELSE y + 1,
     month |-> IF mp < 10 THEN mp + 3 ELSE mp - 9,
     day   |-> doy - (153 * mp + 2) \div 5 + 1]

CivilOfDay(y, doy) == CivilOfMonth(y, doy, (5 * doy + 2) \div 153)

CivilOfYear(era, doe, yoe) ==
    CivilOfDay(yoe + era * 400, doe - (365 * yoe + yoe \div 4 - yoe \div 100))

CivilOfEra(era, doe) ==
    CivilOfYear(era, doe,
                (doe - doe \div 1460 + doe \div 36524 - doe \div 146096) \div 365)

\* The calendar date of a day number: [year, month, day].
CivilFromDays(z) == CivilOfEra(z \div 146097, z % 146097)

\* The calendar date of a time.
Civil(t) == CivilFromDays(t \div HoursPerDay)

\* time.Date(y, m, d, 0, 0, 0, 0, time.UTC): month and day are normalised,
\* an overflowing month carries into the year, an overflowing day into the month.
Date(y, m, d) ==
    DaysFromCivil(y + (m - 1) \div 12, ((m - 1) % 12) + 1, d) * HoursPerDay

Year(t)  == Civil(t).year
Month(t) == Civil(t).month
Day(t)   == Civil(t).day

AddCivil(c, years, months, days, clockPart) ==
    Date(c.year + years, c.month + months, c.day + days) + clockPart

\* t.AddDate(years, months, days): field-wise addition, then normalisation;
\* the time of day is kept.
AddDate(t, years, months, days) ==
    AddCivil(Civil(t), years, months, days, t % HoursPerDay)

\* Conversion to int truncates towards zero.
TruncDiv(a, b) == IF a >= 0 THEN a \div b ELSE -((-a) \div b)

\* int(b.Sub(a).Hours() / 24)
WholeDays(a, b) == TruncDiv(b - a, HoursPerDay)

\* fmt "%02d" of a non-negative number.
Pad2(n) == IF n < 10 THEN "0" \o ToString(n) ELSE ToString(n)

FormatCivil(c) == ToString(c.year) \o Pad2(c.month) \o Pad2(c.day)

\* t.Format("20060102")
Format(t) == FormatCivil(Civil(t))

LastDayOfCivil(c) == Day(Date(c.year, c.month + 1, 0))

\* Number of days of the month t lies in:
\* time.Date(t.Year(), t.Month()+1, 0, ...).Day()
LastDayOfMonth(t) == LastDayOfCivil(Civil(t))

(***************************************************************************)
(* The field-wise decomposition with borrow shared by both labelers.       *)
(***************************************************************************)

\* "if days < 0 { months--; if months < 0 { years--; months += 12 }; days += last }"
borrowDays(years, months, days, last) ==
    IF days < 0
    THEN IF months - 1 < 0
         THEN [years |-> years - 1, months |-> months - 1 + 12, days |-> days + last]
         ELSE [years |-> years, months |-> months - 1, days |-> days + last]
    ELSE [years |-> years, months |-> months, days |-> days]

\* "if months < 0 { years--; months += 12 }"
borrowMonths(years, months, days, last) ==
    IF months < 0 THEN borrowDays(years - 1, months + 12, days, last)
    ELSE borrowDays(years, months, days, last)

decomposeCivil(s, e, last) ==
    borrowMonths(e.year - s.year, e.month - s.month, e.day - s.day, last)

\* last: the length of the month of prevMonth := end.AddDate(0, -1, 0).
decompose(start, end) ==
    decomposeCivil(Civil(start), Civil(end), LastDayOfMonth(AddDate(end, 0, -1, 0)))

(***************************************************************************)
(* getDuration                                                             *)
(***************************************************************************)

DurationMilestones == {7, 100, 1000, 10000}

firstOrZero(hits) ==
    IF hits = {} THEN 0 ELSE CHOOSE months \in hits : \A other \in hits : months <= other

scanHits(c, clockPart, end, bound) ==
    {months \in 1..bound : AddCivil(c, 0, months, 0, clockPart) = end}

\* The loop "for months := 1; months <= bound; months++" over
\* start.AddDate(0, months, 0): the first month count whose addition lands
\* on end, or 0 when the loop finds none.
monthScan(start, end, bound) ==
    firstOrZero(scanHits(Civil(start), start % HoursPerDay, end, bound))

\* Mutant of monthScanBound: the scan stops a year early.
monthScanBound_short(years) == years * 12

\* The bound of that loop.
monthScanBound(years) == years * 12 + 12

formatDuration(c) ==
    IF c.years > 0 /\ c.months = 0 /\ c.days = 0 THEN ToString(c.years) \o "y"
    ELSE IF c.years > 0 /\ c.months > 0 /\ c.days = 0
        THEN ToString(c.years) \o "y " \o ToString(c.months) \o "m"
    ELSE IF c.years > 0 /\ c.days > 0 /\ c.months = 0
        THEN ToString(c.years) \o "y " \o ToString(c.days) \o "d"
    ELSE IF c.months > 0 /\ c.days = 0 THEN ToString(c.months) \o "m"
    ELSE IF c.months > 0 /\ c.days > 0 /\ c.years = 0
        THEN ToString(c.months) \o "m " \o ToString(c.days) \o "d"
    ELSE IF c.days > 0 THEN ToString(c.days) \o "d"
    ELSE ToString(c.years) \o "y " \o ToString(c.months) \o "m " \o ToString(c.days) \o "d"

\* The special case for Feb 29 -> Feb 28: AddDate moved testDate to March 1.
leapDayException(s, e, test) ==
    /\ s.month = 2 /\ s.day = 29
    /\ e.month = 2 /\ e.day = 28
    /\ test.month = 3 /\ test.day = 1

\* Mutant of exactYearTest: the leap-day special case is missing.
exactYearTest_noLeapDay(start, end, testDate) == testDate = end

exactYearTest(start, end, testDate) ==
    \/ testDate = end
    \/ leapDayException(Civil(start), Civil(end), Civil(testDate))

\* The exact-year check, including the leap-day special case.
exactYears(start, end, years) ==
    years > 0 /\ exactYearTest(start, end, AddDate(start, years, 0, 0))

monthsLabel(months) ==
    IF months >= 12 THEN
        IF months % 12 = 0 THEN ToString(months \div 12) \o "y"
        ELSE ToString(months \div 12) \o "y " \o ToString(months % 12) \o "m"
    ELSE ToString(months) \o "m"

\* The day milestones, then the decomposition.
durationByDays(start, end, totalDays) ==
    IF totalDays \in DurationMilestones THEN ToString(totalDays) \o "d"
    ELSE formatDuration(decompose(start, end))

\* months: the result of the month scan.
durationByMonths(start, end, months) ==
    IF months > 0 THEN monthsLabel(months)
    ELSE durationByDays(start, end, WholeDays(start, end))

durationByYears(start, end, years) ==
    IF exactYears(start, end, years) THEN ToString(years) \o "y"
    ELSE durationByMonths(start, end, monthScan(start, end, monthScanBound(years)))

\* Mutant of getDuration: the equality test is missing.
getDuration_noDDay(start, end) == durationByYears(start, end, Year(end) - Year(start))

getDuration(start, end) ==
    IF end = start THEN "D-DAY"
    ELSE durationByYears(start, end, Year(end) - Year(start))

(***************************************************************************)
(* getCountdownDuration                                                    *)
(***************************************************************************)

CountdownMilestones == {1, 2, 3, 5, 7, 10, 30, 60, 90, 100, 365, 1000}

countdownByMonths(totalDays, totalMonths) ==
    IF totalMonths > 0 /\ totalMonths < 12 THEN "D-" \o ToString(totalMonths) \o "m"
    ELSE IF totalMonths >= 12 THEN "D-" \o ToString(totalMonths \div 12) \o "y"
    ELSE "D-" \o ToString(totalDays)

\* "Return formatted countdown": c is the decomposition.
countdownLabel(totalDays, c) ==
    IF c.years > 0 /\ c.months = 0 /\ c.days = 0 THEN "D-" \o ToString(c.years) \o "y"
    ELSE IF c.years = 0 /\ c.months > 0 /\ c.days = 0
        THEN "D-" \o ToString(c.months) \o "m"
    ELSE IF totalDays < 30 THEN "D-" \o ToString(totalDays)
    ELSE countdownByMonths(totalDays, c.months + c.years * 12)

\* Mutant of countdownByDays: the calendar units are tried before the milestones.
countdownByDays_unitsFirst(from, to, totalDays) ==
    countdownLabel(totalDays, decompose(from, to))

\* The day milestones first, then the calendar units.
countdownByDays(from, to, totalDays) ==
    IF totalDays \in CountdownMilestones THEN "D-" \o ToString(totalDays)
    ELSE countdownLabel(totalDays, decompose(from, to))

\* Mutant of getCountdownDuration: inverted arguments are not caught.
getCountdownDuration_equalOnly(from, to) ==
    IF from = to THEN "D-DAY"
    ELSE countdownByDays(from, to, WholeDays(from, to))

getCountdownDuration(from, to) ==
    IF from = to \/ from > to THEN "D-DAY"
    ELSE countdownByDays(from, to, WholeDays(from, to))

(***************************************************************************)
(* getAnniversaries and getCountdowns                                      *)
(***************************************************************************)

\* An Anniversary value: three lists of offsets, in configured order.
NoPattern == [days |-> <<>>, months |-> <<>>, years |-> <<>>]

\* The elements of s that lie strictly after today, in order:
\* "if countdown.After(today) { countdowns = append(countdowns, countdown) }".
keepAfter(s, today) == SelectSeq(s, LAMBDA t : t > today)

\* The day offsets a countdown considers: "if days == 0 { continue }".
skipZero(s) == SelectSeq(s, LAMBDA days : days # 0)

\* Mutant of getAnniversaries: day offset 0 is skipped, as in getCountdowns.
getAnniversaries_skipZero(date, patterns) ==
    [i \in 1..Len(skipZero(patterns.days)) |->
        AddDate(date, 0, 0, skipZero(patterns.days)[i])]
    \o [i \in 1..Len(patterns.months) |-> AddDate(date, 0, patterns.months[i], 0)]
    \o [i \in 1..Len(patterns.years) |-> AddDate(date, patterns.years[i], 0, 0)]

getAnniversaries(date, patterns) ==
    [i \in 1..Len(patterns.days) |->
        IF patterns.days[i] = 0 THEN date
        ELSE AddDate(date, 0, 0, patterns.days[i])]
    \o [i \in 1..Len(patterns.months) |-> AddDate(date, 0, patterns.months[i], 0)]
    \o [i \in 1..Len(patterns.years) |-> AddDate(date, patterns.years[i], 0, 0)]

\* The candidates of the three loops of getCountdowns, before the filter.
dayCountdowns(targetDate, days) ==
    [i \in 1..Len(days) |-> AddDate(targetDate, 0, 0, -days[i])]

monthCountdowns(targetDate, months) ==
    [i \in 1..Len(months) |-> AddDate(targetDate, 0, -months[i], 0)]

yearCountdowns(targetDate, years) ==
    [i \in 1..Len(years) |-> AddDate(targetDate, -years[i], 0, 0)]

\* today is the value time.Now() returned inside the call.
getCountdowns(targetDate, patterns, today) ==
    IF targetDate < today \/ targetDate = today THEN <<>>
    ELSE keepAfter(dayCountdowns(targetDate, skipZero(patterns.days)), today)
         \o keepAfter(monthCountdowns(targetDate, patterns.months), today)
         \o keepAfter(yearCountdowns(targetDate, patterns.years), today)

(***************************************************************************)
(* The calendar entries generateICal adds for one event.                   *)
(***************************************************************************)

\* Stands for the green heart that ends every summary.
GreenHeart == "<green heart>"

\* One VEVENT: its UID, SUMMARY, DESCRIPTION ("" when not set) and DTSTART.
Entry(uid, summary, description, dtstart) ==
    [uid |-> uid, summary |-> summary, description |-> description, dtstart |-> dtstart]

labelledSummary(title, duration) == title \o " - " \o duration \o " " \o GreenHeart

countdownEntries(event, date, countdowns) ==
    [i \in 1..Len(countdowns) |->
        Entry("vanitycal-countdown-" \o Format(countdowns[i]),
              labelledSummary(event.title, getCountdownDuration(countdowns[i], date)),
              event.description,
              Format(countdowns[i]))]

\* The countdown entries of a full-date event: today is the value of
\* time.Now() inside getCountdowns.
countdownPass(event, date, patterns, today) ==
    countdownEntries(event, date, getCountdowns(date, patterns, today))

anniversaryEntries(event, date, anniversaries) ==
    [i \in 1..Len(anniversaries) |->
        Entry("vanitycal-" \o Format(anniversaries[i]),
              labelledSummary(event.title, getDuration(date, anniversaries[i])),
              event.description,
              Format(anniversaries[i]))]

\* The anniversary entries of a full-date event.
anniversaryPass(event, date, patterns) ==
    anniversaryEntries(event, date, getAnniversaries(date, patterns))

recurringEntries(event, month, day, currentYear) ==
    [k \in 1..3 |->
        Entry("vanitycal-recurring-" \o ToString(currentYear + (k - 2))
                  \o Pad2(month) \o Pad2(day),
              event.title \o " " \o GreenHeart,
              event.description,
              Format(Date(currentYear + (k - 2), month, day)))]

\* Recurring annual entries: previous, current and next year
\* (yearOffset = k - 2).  monthDay is the parsed month_day token.
recurringPass(event, monthDay, currentYear) ==
    recurringEntries(event, Month(monthDay), Day(monthDay), currentYear)

(***************************************************************************)
(* Configuration: tokens, time.Parse, validateConfig, applyDefaults.       *)
(* A date or month_day token is the sequence of its characters; <<>> is    *)
(* the empty string.                                                       *)
(***************************************************************************)

DigitChars == {"0", "1", "2", "3", "4", "5", "6", "7", "8", "9"}

DigitVal(c) ==
    CASE c = "0" -> 0 [] c = "1" -> 1 [] c = "2" -> 2 [] c = "3" -> 3 [] c = "4" -> 4
      [] c = "5" -> 5 [] c = "6" -> 6 [] c = "7" -> 7 [] c = "8" -> 8 [] c = "9" -> 9

\* The number written by the n digits of tok that start at position i.
RECURSIVE atoi(_, _, _)
atoi(tok, i, n) ==
    IF n = 0 THEN 0 ELSE atoi(tok, i, n - 1) * 10 + DigitVal(tok[i + n - 1])

AllDigits(tok, i, n) == \A k \in i..(i + n - 1) : tok[k] \in DigitChars

\* daysIn(month, year) of the time package.
daysIn(month, year) == Day(Date(year, month + 1, 0))

\* The zero time.Time, which time.Parse returns with an error.
ZeroTime == Date(1, 1, 1)

\* The range checks of time.Parse and the parsed time: [ok, t].
checkedDate(year, month, day) ==
    IF month \in 1..12 /\ day >= 1 /\ day <= daysIn(month, year)
    THEN [ok |-> TRUE, t |-> Date(year, month, day)]
    ELSE [ok |-> FALSE, t |-> ZeroTime]

\* time.Parse("2006-01-02", tok)
parseDate(tok) ==
    IF /\ Len(tok) = 10
       /\ AllDigits(tok, 1, 4) /\ tok[5] = "-"
       /\ AllDigits(tok, 6, 2) /\ tok[8] = "-"
       /\ AllDigits(tok, 9, 2)
    THEN checkedDate(atoi(tok, 1, 4), atoi(tok, 6, 2), atoi(tok, 9, 2))
    ELSE [ok |-> FALSE, t |-> ZeroTime]

\* time.Parse("01-02", tok): the year of the result is 0, a leap year.
parseMonthDay(tok) ==
    IF /\ Len(tok) = 5
       /\ AllDigits(tok, 1, 2) /\ tok[3] = "-"
       /\ AllDigits(tok, 4, 2)
    THEN checkedDate(0, atoi(tok, 1, 2), atoi(tok, 4, 2))
    ELSE [ok |-> FALSE, t |-> ZeroTime]

\* The text of a token.
RECURSIVE Join(_)
Join(tok) == IF Len(tok) = 0 THEN "" ELSE tok[1] \o Join(Tail(tok))

\* The two checks every event passes before the formats are looked at.
fieldsError(event, n) ==
    IF event.title = "" THEN "event " \o n \o ": title is required"
    ELSE IF event.date = <<>> /\ event.month_day = <<>>
        THEN "event " \o n \o ": either date or month_day is required"
    ELSE IF event.date # <<>> /\ event.month_day # <<>>
        THEN "event " \o n \o ": cannot specify both date and month_day"
    ELSE ""

formatError(event, n) ==
    IF event.date # <<>> /\ ~parseDate(event.date).ok
    THEN "event " \o n \o ": invalid date format '" \o Join(event.date)
             \o "' (expected YYYY-MM-DD)"
    ELSE IF event.month_day # <<>> /\ ~parseMonthDay(event.month_day).ok
    THEN "event " \o n \o ": invalid month_day format '" \o Join(event.month_day)
             \o "' (expected MM-DD)"
    ELSE ""

\* Mutant of eventError: the formats of date and month_day are not validated.
eventError_noFormat(event, n) == fieldsError(event, n)

\* The body of the loop of validateConfig: the error of one event, "" for
\* none; n is the text of i+1.
eventError(event, n) ==
    IF fieldsError(event, n) # "" THEN fieldsError(event, n)
    ELSE formatError(event, n)

\* The error of the first offending event at or after index i, "" for nil.
RECURSIVE validateEvents(_, _)
validateEvents(events, i) ==
    IF i > Len(events) THEN ""
    ELSE IF eventError(events[i], ToString(i)) # ""
        THEN eventError(events[i], ToString(i))
    ELSE validateEvents(events, i + 1)

\* Mutant of validateConfig: an empty list of events is accepted.
validateConfig_allowEmpty(config) == validateEvents(config.events, 1)

validateConfig(config) ==
    IF Len(config.events) = 0 THEN "no events found in configuration"
    ELSE validateEvents(config.events, 1)

DefaultYears  == <<1, 2, 3, 4, 5, 6, 7, 8, 9, 10, 15, 20, 25, 30, 35, 40, 45, 50>>
DefaultMonths == <<1, 2, 3, 6, 9>>
DefaultDays   == <<0, 7, 100, 1000, 10000>>

\* Mutant of applyDefaults: the defaults replace the configured values too.
applyDefaults_overwrite(config) ==
    [config EXCEPT
        !.timezone = "Europe/Paris",
        !.calendar_name = "VanityCal " \o GreenHeart,
        !.anniversaries =
            [years |-> DefaultYears, months |-> DefaultMonths, days |-> DefaultDays]]

applyDefaults(config) ==
    [config EXCEPT
        !.timezone = IF @ = "" THEN "Europe/Paris" ELSE @,
        !.calendar_name = IF @ = "" THEN "VanityCal " \o GreenHeart ELSE @,
        !.anniversaries =
            [years  |-> IF Len(@.years) = 0 THEN DefaultYears ELSE @.years,
             months |-> IF Len(@.months) = 0 THEN DefaultMonths ELSE @.months,
             days   |-> IF Len(@.days) = 0 THEN DefaultDays ELSE @.days]]

\* loadConfig decodes the file into Config; the Event struct has the fields
\* date, month_day, title and description, and the decoder drops every other key.
decodeEvent(table) ==
    [date |-> table.date, month_day |-> table.month_day,
     title |-> table.title, description |-> table.description]

loadConfig(f) ==
    [timezone |-> f.timezone, calendar_name |-> f.calendar_name,
     anniversaries |-> f.anniversaries,
     events |-> [i \in 1..Len(f.events) |-> decodeEvent(f.events[i])]]

(***************************************************************************)
(* State.                                                                  *)
(*   pc, file, config, clock, nows, currentYear, idx, cal, origin, output, *)
(*   err                                                                   *)
(*       one execution of run();                                           *)
(*   call, ret                                                             *)
(*       one application of a function of the program to given arguments.  *)
(***************************************************************************)
VARIABLES
    pc,          \* position of run(): load, validate, create, generate, events, done, failed
    file,        \* the configuration file as written by the user
    config,      \* the decoded Config
    clock,       \* the latest value time.Now() has returned
    nows,        \* history: the values of time.Now() the run has compared dates with
                 \* or taken its current year from
    currentYear, \* generateICal's currentYear
    idx,         \* index of the next event of the loop of generateICal
    cal,         \* the entries added to the calendar so far, in order
    origin,      \* history: for each entry of cal, its event index and pass
    output,      \* the output destination: none, open, written
    err,         \* the error run() returns, "" for nil
    call,        \* the function applied and its arguments
    ret          \* <<>> before the call returns, <<result>> after

vars == <<pc, file, config, clock, nows, currentYear, idx, cal, origin, output, err, call, ret>>
runVars == <<pc, file, config, clock, nows, currentYear, idx, cal, origin, output, err>>

(***************************************************************************)
(* Bounds of the inputs.                                                   *)
(***************************************************************************)
AnchorSpan == 730   \* anchors are the AnchorSpan + 1 days from 2019-03-01 on
MaxYears   == 5     \* year offsets 1..MaxYears
MaxMonths  == 26    \* month offsets 1..MaxMonths
MaxBack    == 3     \* inverted arguments: up to MaxBack days
PatSpan    == 34    \* anchors of patterns: PatSpan + 1 days from 2020-02-26 on
MaxPatLen  == 3     \* total number of offsets of a pattern
MaxEvents  == 2     \* events of a configuration
SpanDays   == 365   \* starts of free intervals: SpanDays + 1 days from 2019-03-01 on
MaxSpan    == 70    \* a free interval ends up to MaxSpan days after its start

SeqsUpTo(S, n) == UNION {[1..k -> S] : k \in 0..n}

Range(s) == {s[i] : i \in 1..Len(s)}

Anchors == {Date(2019, 3, 1 + k) : k \in 0..AnchorSpan}

SpanAnchors == {Date(2019, 3, 1 + k) : k \in 0..SpanDays}

\* A free interval ends SpanYears years and 1..MaxSpan days after its start.
SpanYears == {0, 1}

Labelers == {"getDuration", "getCountdownDuration"}

PatAnchors == {Date(2020, 2, 26 + k) : k \in 0..PatSpan}

LeapDay(t) == Month(t) = 2 /\ Day(t) = 29

IsLeapYear(y) == y % 4 = 0 /\ (y % 100 # 0 \/ y % 400 = 0)

DayOffsets   == {0, 3}
MonthOffsets == {0, 1}
YearOffsets  == {0, 1}

Patterns ==
    {p \in [days   : SeqsUpTo(DayOffsets, MaxPatLen),
            months : SeqsUpTo(MonthOffsets, MaxPatLen),
            years  : SeqsUpTo(YearOffsets, MaxPatLen)] :
        Len(p.days) + Len(p.months) + Len(p.years) <= MaxPatLen}

\* Hours by which "now" precedes the target date of a getCountdowns call.
TodayLeads == {-12, 0, 12, 20 * HoursPerDay + 12, 400 * HoursPerDay}

TestEvent == [date |-> <<>>, month_day |-> <<>>, title |-> "T", description |-> ""]

Call(fn, a, b, unit, n, pat, today) ==
    [fn |-> fn, a |-> a, b |-> b, unit |-> unit, n |-> n, pat |-> pat, today |-> today]

\* The applications of the two labelers to the anchor a: b is a shifted by
\* n units.
DurationCalls(a) ==
    {Call(f, a, a, "same", 0, NoPattern, 0) : f \in Labelers}
    \cup
    {Call(f, a, AddDate(a, y, 0, 0), "years", y, NoPattern, 0) :
        f \in Labelers, y \in 1..MaxYears}
    \cup
    {Call(f, a, Date(Year(a) + y, 2, 28), "feb28", y, NoPattern, 0) :
        f \in Labelers, y \in {k \in 1..MaxYears : LeapDay(a) /\ ~IsLeapYear(Year(a) + k)}}
    \cup
    {Call(f, a, AddDate(a, 0, m, 0), "months", m, NoPattern, 0) :
        f \in Labelers, m \in 1..MaxMonths}
    \cup
    {Call("getDuration", a, a + d * HoursPerDay, "days", d, NoPattern, 0) :
        d \in DurationMilestones}
    \cup
    {Call("getCountdownDuration", a, a + d * HoursPerDay, "days", d, NoPattern, 0) :
        d \in CountdownMilestones}
    \cup
    {Call("getCountdownDuration", a, a - d * HoursPerDay, "back", d, NoPattern, 0) :
        d \in 1..MaxBack}

\* The applications of the two labelers to the free intervals that start at a.
SpanCalls(a) ==
    {Call(f, a, AddDate(a, y, 0, d), "span", d, NoPattern, 0) :
        f \in Labelers, y \in SpanYears, d \in 1..MaxSpan}

\* The applications of the expanders to the anchor a and the pattern p.
PatternCalls(a, p) ==
    {Call(f, a, 0, "", 0, p, 0) : f \in {"getAnniversaries", "anniversaryPass"}}
    \cup
    {Call("getCountdowns", a, 0, "", 0, p, a - lead) : lead \in TodayLeads}

\* The applications of the countdown pass to the anchor a and a single year
\* offset, with "now" before or after the candidate.
YearCountdownCalls(a) ==
    {Call("countdownPass", a, AddDate(a, -y, 0, 0), "years", y,
          [days |-> <<>>, months |-> <<>>, years |-> <<y>>], today) :
        y \in 1..MaxYears,
        today \in {AddDate(a, -(MaxYears + 2), 0, 0), a - 400 * HoursPerDay}}

NoCall == Call("", 0, 0, "", 0, NoPattern, 0)

(***************************************************************************)
(* Applying one function.                                                  *)
(***************************************************************************)
RunIdle ==
    /\ pc = "off" /\ file = <<>> /\ config = <<>> /\ clock = 0 /\ nows = {} /\ currentYear = 0
    /\ idx = 0 /\ cal = <<>> /\ origin = <<>> /\ output = "none" /\ err = ""

InitCalls ==
    /\ RunIdle
    /\ \/ \E a \in Anchors : call \in DurationCalls(a)
       \/ \E a \in SpanAnchors : call \in SpanCalls(a)
       \/ \E a \in PatAnchors : call \in YearCountdownCalls(a)
       \/ \E a \in PatAnchors : \E p \in Patterns : call \in PatternCalls(a, p)
    /\ ret = <<>>

CallGetDuration ==
    /\ call.fn = "getDuration" /\ ret = <<>>
    /\ ret' = <<getDuration(call.a, call.b)>>
    /\ UNCHANGED <<call, runVars>>

CallGetCountdownDuration ==
    /\ call.fn = "getCountdownDuration" /\ ret = <<>>
    /\ ret' = <<getCountdownDuration(call.a, call.b)>>
    /\ UNCHANGED <<call, runVars>>

CallGetAnniversaries ==
    /\ call.fn = "getAnniversaries" /\ ret = <<>>
    /\ ret' = <<getAnniversaries(call.a, call.pat)>>
    /\ UNCHANGED <<call, runVars>>

CallGetCountdowns ==
    /\ call.fn = "getCountdowns" /\ ret = <<>>
    /\ ret' = <<getCountdowns(call.a, call.pat, call.today)>>
    /\ UNCHANGED <<call, runVars>>

CallAnniversaryPass ==
    /\ call.fn = "anniversaryPass" /\ ret = <<>>
    /\ ret' = <<anniversaryPass(TestEvent, call.a, call.pat)>>
    /\ UNCHANGED <<call, runVars>>

CallCountdownPass ==
    /\ call.fn = "countdownPass" /\ ret = <<>>
    /\ ret' = <<countdownPass(TestEvent, call.a, call.pat, call.today)>>
    /\ UNCHANGED <<call, runVars>>

NextCalls ==
    \/ CallGetDuration
    \/ CallGetCountdownDuration
    \/ CallGetAnniversaries
    \/ CallGetCountdowns
    \/ CallAnniversaryPass
    \/ CallCountdownPass

SpecCalls == InitCalls /\ [][NextCalls]_vars

(***************************************************************************)
(* One execution of run(configFile, outputFile).                           *)
(***************************************************************************)
MaxTicks == 2       \* the clock takes the values ClockStart + k * 12 h, k in 0..MaxTicks

\* 2024-12-31 12:00
ClockStart == Date(2024, 12, 31) + 12

ClockValues == {ClockStart + k * 12 : k \in 0..MaxTicks}

\* The values a call of time.Now() can return when the previous one returned t.
Samples(t) == {u \in ClockValues : u >= t}

Chars2(n) == <<ToString(n \div 10), ToString(n % 10)>>

\* The text YYYY-MM-DD.
DateToken(y, m, d) ==
    <<ToString(y \div 1000), ToString((y \div 100) % 10), ToString((y \div 10) % 10),
      ToString(y % 10), "-">> \o Chars2(m) \o <<"-">> \o Chars2(d)

\* The text MM-DD.
MonthDayToken(m, d) == Chars2(m) \o <<"-">> \o Chars2(d)

\* An [[events]] table of the file.
Table(date, monthDay, title, description, noPast, noFuture) ==
    [date |-> date, month_day |-> monthDay, title |-> title, description |-> description,
     no_past |-> noPast, no_future |-> noFuture]

ValidTables ==
    {Table(DateToken(2020, 2, 29), <<>>, "Founded", "", FALSE, FALSE),
     Table(DateToken(2025, 1, 1), <<>>, "Party", "", FALSE, FALSE),
     Table(DateToken(2025, 3, 31), <<>>, "Countdown Only", "", TRUE, FALSE),
     Table(DateToken(2025, 3, 31), <<>>, "No Countdown", "", FALSE, TRUE),
     Table(<<>>, MonthDayToken(2, 29), "Leap Day", "", FALSE, FALSE),
     Table(<<>>, MonthDayToken(7, 4), "Independence Day", "Annual celebration", FALSE, FALSE)}

InvalidTables ==
    {Table(DateToken(2020, 2, 29), MonthDayToken(2, 30), "", "", FALSE, FALSE),
     Table(<<>>, <<>>, "Neither", "", FALSE, FALSE),
     Table(DateToken(2023, 1, 1), MonthDayToken(1, 1), "Both", "", FALSE, FALSE),
     Table(DateToken(2021, 2, 29), <<>>, "Bad date", "", FALSE, FALSE),
     Table(<<>>, <<"2", "5", "/", "1", "2">>, "Bad month_day", "", FALSE, FALSE)}

FileHeads ==
    {[timezone |-> "", calendar_name |-> "", anniversaries |-> NoPattern],
     [timezone |-> "UTC", calendar_name |-> "Test Calendar",
      anniversaries |-> [days |-> <<0, 7>>, months |-> <<1, 12>>, years |-> <<1>>]],
     [timezone |-> "", calendar_name |-> "",
      anniversaries |-> [days |-> <<0>>, months |-> <<>>, years |-> <<1, 5, 10>>]]}

Files ==
    {[readable |-> TRUE, timezone |-> h.timezone, calendar_name |-> h.calendar_name,
      anniversaries |-> h.anniversaries, events |-> e] :
        h \in FileHeads, e \in SeqsUpTo(ValidTables \cup InvalidTables, MaxEvents)}
    \cup
    {[readable |-> FALSE, timezone |-> "", calendar_name |-> "",
      anniversaries |-> NoPattern, events |-> <<>>]}

CallIdle == call = NoCall /\ ret = <<>>

Init ==
    /\ pc = "load"
    /\ file \in Files
    /\ config = <<>>
    /\ clock = ClockStart
    /\ nows = {}
    /\ currentYear = 0
    /\ idx = 0
    /\ cal = <<>>
    /\ origin = <<>>
    /\ output = "none"
    /\ err = ""
    /\ CallIdle

Fail(message) ==
    /\ pc' = "failed"
    /\ err' = message

\* config, err := loadConfig(configFile)
LoadConfig ==
    /\ pc = "load"
    /\ IF file.readable
       THEN /\ config' = loadConfig(file)
            /\ pc' = "validate"
            /\ err' = err
       ELSE /\ Fail("loading config")
            /\ config' = config
    /\ UNCHANGED <<file, clock, nows, currentYear, idx, cal, origin, output, call, ret>>

\* err := validateConfig(config)
ValidateConfig ==
    /\ pc = "validate"
    /\ IF validateConfig(config) = ""
       THEN pc' = "create" /\ err' = err
       ELSE Fail("invalid config: " \o validateConfig(config))
    /\ UNCHANGED <<file, config, clock, nows, currentYear, idx, cal, origin, output, call, ret>>

\* output, cleanup, err := createOutput(outputFile); os.Create may fail.
CreateOutput ==
    /\ pc = "create"
    /\ \/ pc' = "generate" /\ output' = "open" /\ err' = err
       \/ Fail("creating output") /\ output' = output
    /\ UNCHANGED <<file, config, clock, nows, currentYear, idx, cal, origin, call, ret>>

\* generateICal up to its loop: the defaults, the empty calendar, and the
\* two calls of time.Now() (last-modified, currentYear).
GenerateStart ==
    /\ pc = "generate"
    /\ \E modified \in Samples(clock) :
         \E now \in Samples(modified) :
            /\ clock' = now
            /\ nows' = {now}
            /\ currentYear' = Year(now)
    /\ config' = applyDefaults(config)
    /\ cal' = <<>>
    /\ origin' = <<>>
    /\ idx' = 1
    /\ pc' = "events"
    /\ UNCHANGED <<file, output, err, call, ret>>

Origins(entries, pass) == [i \in 1..Len(entries) |-> [event |-> idx, pass |-> pass]]

AddEntries(entries, pass) ==
    /\ cal' = cal \o entries
    /\ origin' = origin \o Origins(entries, pass)

\* Mutant of AddBoth: the anniversary entries are added before the countdowns.
AddBoth_anniversariesFirst(countdowns, anniversaries) ==
    /\ cal' = cal \o anniversaries \o countdowns
    /\ origin' = origin \o Origins(anniversaries, "anniversary")
                        \o Origins(countdowns, "countdown")

AddBoth(countdowns, anniversaries) ==
    /\ cal' = cal \o countdowns \o anniversaries
    /\ origin' = origin \o Origins(countdowns, "countdown")
                        \o Origins(anniversaries, "anniversary")

\* A full-date event: now is the value of time.Now() its date is compared
\* with; for a date after now the countdowns (today is the value of
\* time.Now() in getCountdowns) come first, then the anniversaries.
DateEvent(event, date) ==
    \E now \in Samples(clock) :
        IF date > now
        THEN \E today \in Samples(now) :
                /\ AddBoth(countdownPass(event, date, config.anniversaries, today),
                           anniversaryPass(event, date, config.anniversaries))
                /\ clock' = today
                /\ nows' = nows \cup {now, today}
        ELSE /\ AddEntries(anniversaryPass(event, date, config.anniversaries), "anniversary")
             /\ clock' = now
             /\ nows' = nows \cup {now}

\* One iteration of "for _, event := range config.Events".
GenerateEvent ==
    /\ pc = "events"
    /\ idx <= Len(config.events)
    /\ IF config.events[idx].date # <<>>
       THEN IF parseDate(config.events[idx].date).ok
            THEN /\ DateEvent(config.events[idx], parseDate(config.events[idx].date).t)
                 /\ idx' = idx + 1
                 /\ UNCHANGED <<pc, err>>
            ELSE /\ Fail("generating calendar: Error parsing date")
                 /\ UNCHANGED <<clock, nows, idx, cal, origin>>
       ELSE IF config.events[idx].month_day # <<>>
            THEN /\ AddEntries(recurringPass(config.events[idx],
                                             parseMonthDay(config.events[idx].month_day).t,
                                             currentYear),
                               "recurring")
                 /\ idx' = idx + 1
                 /\ UNCHANGED <<pc, err, clock, nows>>
            ELSE /\ idx' = idx + 1
                 /\ UNCHANGED <<pc, err, clock, nows, cal, origin>>
    /\ UNCHANGED <<file, config, currentYear, output, call, ret>>

\* _, err := output.Write([]byte(cal.Serialize())), after the loop.
WriteOutput ==
    /\ pc = "events"
    /\ idx > Len(config.events)
    /\ \/ pc' = "done" /\ output' = "written" /\ err' = err
       \/ Fail("generating calendar") /\ output' = output
    /\ UNCHANGED <<file, config, clock, nows, currentYear, idx, cal, origin, call, ret>>

Next ==
    \/ LoadConfig
    \/ ValidateConfig
    \/ CreateOutput
    \/ GenerateStart
    \/ GenerateEvent
    \/ WriteOutput

Spec == Init /\ [][Next]_vars

(***************************************************************************)
(* Properties of the labelers and expanders (specification SpecCalls).     *)
(***************************************************************************)
Returned(fn) == call.fn = fn /\ ret # <<>>

\* C1: getDuration(D, D) is "D-DAY" for every date D, and when the day
\* pattern contains 0 the anniversary pass emits an entry dated D itself
\* whose label is "D-DAY".
C1_DDay ==
    /\ (Returned("getDuration") /\ call.a = call.b) => ret[1] = "D-DAY"
    /\ (Returned("anniversaryPass") /\ 0 \in Range(call.pat.days)) =>
            \E i \in 1..Len(ret[1]) :
                /\ ret[1][i].dtstart = Format(call.a)
                /\ ret[1][i].summary = labelledSummary(TestEvent.title, "D-DAY")

C1_Witness ==
    /\ Returned("anniversaryPass")
    /\ 0 \in Range(call.pat.days) /\ 3 \in Range(call.pat.days)
    /\ LeapDay(call.a)

\* C2: for every date D and Y > 0, getDuration(D, D plus Y years) is "Yy",
\* and so is getDuration(Feb 29, Feb 28 of the non-leap year Y years later).
C2_ExactYears ==
    (Returned("getDuration") /\ call.unit \in {"years", "feb28"}) =>
        ret[1] = ToString(call.n) \o "y"

C2_Witness ==
    /\ Returned("getDuration") /\ call.unit = "feb28"
    /\ Format(call.b) = "20210228"

\* The label that names m months.
MonthsName(m) ==
    IF m < 12 THEN ToString(m) \o "m"
    ELSE IF m % 12 = 0 THEN ToString(m \div 12) \o "y"
    ELSE ToString(m \div 12) \o "y " \o ToString(m % 12) \o "m"

\* C3: for every date D and m >= 1, getDuration(D, D plus m months) names
\* exactly m months, also when the addition rolls over into the following
\* month, and the bound of the month scan reaches m.
C3_ExactMonths ==
    (Returned("getDuration") /\ call.unit = "months") =>
        /\ ret[1] = MonthsName(call.n)
        /\ call.n <= monthScanBound(Year(call.b) - Year(call.a))

C3_Witness ==
    /\ Returned("getDuration") /\ call.unit = "months" /\ call.n = 1
    /\ Format(call.a) = "20210131" /\ Format(call.b) = "20210303"

\* C4: a whole-day distance N of the milestone table of a labeler is
\* labelled by that labeler as N days: "Nd" by getDuration, "D-N" by
\* getCountdownDuration, also when the interval is an exact month or year.
C4_Milestones ==
    /\ (Returned("getDuration") /\ call.unit = "days") =>
            ret[1] = ToString(call.n) \o "d"
    /\ (Returned("getCountdownDuration") /\ call.unit = "days") =>
            ret[1] = "D-" \o ToString(call.n)

C4_Witness ==
    /\ Returned("getCountdownDuration") /\ call.unit = "days" /\ call.n = 365
    /\ call.b = AddDate(call.a, 1, 0, 0)
    /\ ret[1] = "D-365"

\* C5: every date getCountdowns returns is strictly after "now" and strictly
\* before the anchor date.
C5_CountdownsStrictlyBetween ==
    Returned("getCountdowns") =>
        \A i \in 1..Len(ret[1]) : ret[1][i] > call.today /\ ret[1][i] < call.a

\* C6: getAnniversaries returns one date per configured offset, day offsets
\* first, then month offsets, then year offsets, each group in configured
\* order, entry i being the anchor shifted by offset i.
C6_AnniversariesComplete ==
    Returned("getAnniversaries") =>
        LET r  == ret[1]
            p  == call.pat
            nd == Len(p.days)
            nm == Len(p.months)
            ny == Len(p.years)
            c  == Civil(call.a)
        IN  /\ Len(r) = nd + nm + ny
            /\ \A i \in 1..nd : r[i] = call.a + p.days[i] * HoursPerDay
            /\ \A i \in 1..nm : r[nd + i] = Date(c.year, c.month + p.months[i], c.day)
            /\ \A i \in 1..ny : r[nd + nm + i] = Date(c.year + p.years[i], c.month, c.day)

C6_Witness ==
    /\ Returned("getAnniversaries")
    /\ call.pat = [days |-> <<0>>, months |-> <<1, 1>>, years |-> <<>>]
    /\ Len(ret[1]) = 3 /\ ret[1][2] = ret[1][3] /\ ret[1][1] = call.a

\* C7: getCountdownDuration(from, to) is "D-DAY" whenever from is equal to
\* or later than to.
C7_CountdownDDay ==
    (Returned("getCountdownDuration") /\ call.a >= call.b) => ret[1] = "D-DAY"

C7_Witness ==
    /\ Returned("getCountdownDuration") /\ call.unit = "back" /\ call.a > call.b
    /\ ret[1] = "D-DAY"

(***************************************************************************)
(* Properties of the generated calendar (specification Spec).              *)
(***************************************************************************)

\* The events the loop of generateICal has gone through.
Processed == IF pc \in {"events", "done"} THEN 1..(idx - 1) ELSE {}

\* The positions in cal of the entries of event e added by the given pass.
EntriesOf(e, pass) ==
    {k \in 1..Len(cal) : origin[k].event = e /\ origin[k].pass = pass}

Recurring(e) == config.events[e].date = <<>> /\ config.events[e].month_day # <<>>

FullDate(e) == config.events[e].date # <<>>

\* The date of year y on the month and day written in a month_day token.
SameMonthDay(y, tok) == ToString(y) \o Pad2(atoi(tok, 1, 2)) \o Pad2(atoi(tok, 4, 2))

\* C8: a recurring event yields exactly three entries, dated in the years
\* currentYear-1, currentYear and currentYear+1 on the month and day of its
\* month_day token, each with the title alone as summary.
C8_RecurringThree ==
    \A e \in Processed :
        Recurring(e) =>
            /\ Cardinality(EntriesOf(e, "recurring")) = 3
            /\ \A y \in (currentYear - 1)..(currentYear + 1) :
                   \E k \in EntriesOf(e, "recurring") :
                       cal[k].dtstart = SameMonthDay(y, config.events[e].month_day)
            /\ \A k \in EntriesOf(e, "recurring") :
                   cal[k].summary = config.events[e].title \o " " \o GreenHeart

\* C9: a full-date event with no_past yields no anniversary entries, and a
\* full-date event with no_future yields no countdown entries.
C9_FlagsHonoured ==
    \A e \in Processed :
        FullDate(e) =>
            /\ file.events[e].no_past => EntriesOf(e, "anniversary") = {}
            /\ file.events[e].no_future => EntriesOf(e, "countdown") = {}

\* C10: no two entries of the calendar share a UID.
C10_UniqueUIDs ==
    \A i \in 1..Len(cal) : \A j \in 1..Len(cal) :
        i # j => cal[i].uid # cal[j].uid

\* C11: every past/future comparison of one run, and the current year of
\* its recurring events, uses one and the same value of "now".
C11_SingleNow == Cardinality(nows) <= 1

\* A token of the file that time.Parse rejects.
BadToken(table) ==
    \/ table.date # <<>> /\ ~parseDate(table.date).ok
    \/ table.month_day # <<>> /\ ~parseMonthDay(table.month_day).ok

HasBadToken == file.readable /\ \E i \in 1..Len(file.events) : BadToken(file.events[i])

\* C12: when a date or month_day token of the file fails to parse, run fails
\* before the output destination is created and before any event is
\* expanded; the parse error of generateICal never occurs; and the calendar
\* is written only after every event has been expanded.
C12_NoPartialOutput ==
    /\ HasBadToken =>
          /\ pc \in {"load", "validate", "failed"}
          /\ output = "none" /\ cal = <<>> /\ idx = 0
    /\ err # "generating calendar: Error parsing date"
    /\ output = "written" => pc = "done" /\ idx = Len(config.events) + 1
    /\ (pc = "events" /\ idx <= Len(config.events)) => output = "open"

C12_Witness ==
    /\ pc = "failed" /\ output = "none" /\ cal = <<>>
    /\ Len(file.events) = 2
    /\ ~BadToken(file.events[1]) /\ file.events[1].title = "Party"
    /\ BadToken(file.events[2]) /\ file.events[2].title = "Bad date"
    /\ err = "invalid config: event 2: invalid date format '2021-02-29' (expected YYYY-MM-DD)"

\* The number of days of a month, by the calendar rule.
MonthLength(year, month) ==
    IF month = 2 THEN (IF IsLeapYear(year) THEN 29 ELSE 28)
    ELSE IF month \in {4, 6, 9, 11} THEN 30 ELSE 31

IsDate(year, month, day) == month \in 1..12 /\ day \in 1..MonthLength(year, month)

\* A token of the form YYYY-MM-DD that names a day of the calendar.
WellFormedDate(tok) ==
    /\ Len(tok) = 10 /\ tok[5] = "-" /\ tok[8] = "-"
    /\ \A k \in {1, 2, 3, 4, 6, 7, 9, 10} : tok[k] \in DigitChars
    /\ IsDate(atoi(tok, 1, 4), atoi(tok, 6, 2), atoi(tok, 9, 2))

\* A token of the form MM-DD that names a day of a year (February 29 included).
WellFormedMonthDay(tok) ==
    /\ Len(tok) = 5 /\ tok[3] = "-"
    /\ \A k \in {1, 2, 4, 5} : tok[k] \in DigitChars
    /\ \E year \in {2023, 2024} : IsDate(year, atoi(tok, 1, 2), atoi(tok, 4, 2))

\* What the configuration requires of an event, in the order of the checks;
\* "" when the event meets all of it.
Offence(table) ==
    IF table.title = "" THEN "title is required"
    ELSE IF table.date = <<>> /\ table.month_day = <<>>
        THEN "either date or month_day is required"
    ELSE IF table.date # <<>> /\ table.month_day # <<>>
        THEN "cannot specify both date and month_day"
    ELSE IF table.date # <<>> /\ ~WellFormedDate(table.date)
        THEN "invalid date format '" \o Join(table.date) \o "' (expected YYYY-MM-DD)"
    ELSE IF table.month_day # <<>> /\ ~WellFormedMonthDay(table.month_day)
        THEN "invalid month_day format '" \o Join(table.month_day) \o "' (expected MM-DD)"
    ELSE ""

Offenders == {i \in 1..Len(file.events) : Offence(file.events[i]) # ""}

FirstOffender == CHOOSE i \in Offenders : \A j \in Offenders : i <= j

Validated == file.readable /\ pc \notin {"load", "validate"}

\* C13: validateConfig returns no error exactly when the list of events is
\* not empty and every event has a title, exactly one of date and
\* month_day, and a well-formed value of it; otherwise its error is that of
\* the first offending event, numbered from 1, for the first check it fails.
C13_ValidateConfig ==
    Validated =>
        IF Len(file.events) = 0
        THEN pc = "failed" /\ err = "invalid config: no events found in configuration"
        ELSE IF Offenders = {}
        THEN pc = "failed" => err \in {"creating output", "generating calendar"}
        ELSE /\ pc = "failed"
             /\ err = "invalid config: event " \o ToString(FirstOffender) \o ": "
                          \o Offence(file.events[FirstOffender])

C13_Witness ==
    /\ Validated /\ Len(file.events) = 2
    /\ file.events[1].title = "Party"
    /\ file.events[2].title = "" /\ file.events[2].month_day = MonthDayToken(2, 30)
    /\ file.events[2].date # <<>>
    /\ err = "invalid config: event 2: title is required"

\* generateICal has applied the defaults.
Defaulted == idx >= 1

OrDefault(configured, empty, default) == IF configured = empty THEN default ELSE configured

MinimalPattern == [days |-> <<0>>, months |-> <<>>, years |-> <<1, 5, 10>>]

\* The dates a year-only pattern (with D-Day) gives an event of date d.
YearOnlyDates(d) ==
    {Format(d)} \cup {Format(AddDate(d, y, 0, 0)) : y \in {1, 5, 10, -1, -5, -10}}

\* C15: with years = [1, 5, 10], months = [] and days = [0], a full-date
\* event yields the D-Day entry and the 1-, 5- and 10-year anniversaries
\* and no month-based entry.
C15_EmptyListDisables ==
    \A e \in Processed :
        (FullDate(e) /\ file.anniversaries = MinimalPattern) =>
            /\ Cardinality(EntriesOf(e, "anniversary")) = 4
            /\ \A k \in 1..Len(cal) :
                   origin[k].event = e =>
                       cal[k].dtstart \in YearOnlyDates(parseDate(config.events[e].date).t)

(***************************************************************************)
(* Properties of the decomposition (specification SpecCalls).              *)
(***************************************************************************)

\* The call applies fn to a free interval, with start before end.
SpanReturned(fn) == Returned(fn) /\ call.unit = "span" /\ call.a < call.b

\* getDuration(start, end) gets as far as its decomposition.
ReachesDecomposition(start, end) ==
    /\ start # end
    /\ ~exactYears(start, end, Year(end) - Year(start))
    /\ monthScan(start, end, monthScanBound(Year(end) - Year(start))) = 0
    /\ WholeDays(start, end) \notin DurationMilestones

Part(n, unit) == IF n = 0 THEN <<>> ELSE <<ToString(n) \o unit>>

Spaced(parts) ==
    IF Len(parts) = 0 THEN ""
    ELSE IF Len(parts) = 1 THEN parts[1]
    ELSE IF Len(parts) = 2 THEN parts[1] \o " " \o parts[2]
    ELSE parts[1] \o " " \o parts[2] \o " " \o parts[3]

\* The non-zero components in the order years, months, days.
ComponentsLabel(years, months, days) ==
    Spaced(Part(years, "y") \o Part(months, "m") \o Part(days, "d"))

Components(start, end) == decompose(start, end)

NonNegative(c) == c.years >= 0 /\ c.months >= 0 /\ c.days >= 0

\* C16: when getDuration reaches its decomposition, the label lists exactly
\* the non-zero components in the order years, months, days; with three
\* non-zero components it is "Yy Mm Dd".
C16_NonZeroComponents ==
    (/\ SpanReturned("getDuration")
     /\ ReachesDecomposition(call.a, call.b)
     /\ NonNegative(Components(call.a, call.b))) =>
        ret[1] = ComponentsLabel(Components(call.a, call.b).years,
                                 Components(call.a, call.b).months,
                                 Components(call.a, call.b).days)

\* The number of days of the calendar month before the month of t.
PrecedingMonthLength(t) ==
    IF Month(t) = 1 THEN MonthLength(Year(t) - 1, 12)
    ELSE MonthLength(Year(t), Month(t) - 1)

\* C17: in the decomposition of both labelers, when the day of end is less
\* than the day of start, the day component is end.day - start.day plus the
\* number of days of the month that precedes the month of end.
C17_BorrowPrecedingMonth ==
    ((SpanReturned("getDuration") \/ SpanReturned("getCountdownDuration"))
        /\ Day(call.b) < Day(call.a)) =>
        Components(call.a, call.b).days =
            Day(call.b) - Day(call.a) + PrecedingMonthLength(call.b)

\* C18: for a distance outside the milestone table, getCountdownDuration
\* labels an interval of exactly Y years (or Feb 29 to Feb 28 Y years
\* later) "D-Yy" and an interval of exactly M months, M in 1..11, "D-Mm".
C18_CountdownExactUnits ==
    (/\ Returned("getCountdownDuration") /\ call.a < call.b
     /\ WholeDays(call.a, call.b) \notin CountdownMilestones) =>
        /\ call.unit \in {"years", "feb28"} => ret[1] = "D-" \o ToString(call.n) \o "y"
        /\ (call.unit = "months" /\ call.n <= 11) => ret[1] = "D-" \o ToString(call.n) \o "m"

\* The labels made of positive components, and the other labels of getDuration.
ProperLabels ==
    ({ComponentsLabel(y, m, d) : y \in 0..(MaxYears + 3), m \in 0..11, d \in 0..31}
        \ {""})
    \cup {ToString(d) \o "d" : d \in DurationMilestones}
    \cup {"D-DAY"}

\* C20: for start before end, the decomposition has years >= 0, months in
\* 0..11 and days >= 0, and the label of getDuration has no negative and
\* no zero component.
C20_NoNegativeComponent ==
    (Returned("getDuration") /\ call.a < call.b) =>
        /\ ret[1] \in ProperLabels
        /\ ReachesDecomposition(call.a, call.b) =>
               /\ NonNegative(Components(call.a, call.b))
               /\ Components(call.a, call.b).months <= 11

(***************************************************************************)
(* Order of the entries (specification Spec).                              *)
(***************************************************************************)

\* The date of the full-date event e.
DateOf(e) == parseDate(config.events[e].date).t

\* The countdown candidates of a date in the order days, months, years,
\* without the day offset 0, that lie after the instant t.
CandidatesAfter(d, p, t) ==
    keepAfter(dayCountdowns(d, skipZero(p.days)) \o monthCountdowns(d, p.months)
                  \o yearCountdowns(d, p.years), t)

\* The entries at the positions K of cal are, in order, on the dates s.
DatedInOrder(K, s) ==
    /\ Cardinality(K) = Len(s)
    /\ \A k \in K : cal[k].dtstart = Format(s[Cardinality({j \in K : j <= k})])

OffsetCount(p) == Len(p.days) + Len(p.months) + Len(p.years)

YearsCountdownName(years, days) ==
    IF days \in CountdownMilestones THEN "D-" \o ToString(days)
    ELSE "D-" \o ToString(years) \o "y"

\* C21: a countdown entry for the year offset Y of a future anchor A, dated
\* C = A minus Y years, is labelled "D-Yy", or "D-N" when the N whole days
\* from C to A are a milestone.
C21_YearCountdownLabel ==
    (Returned("countdownPass") /\ call.unit = "years") =>
        \A i \in 1..Len(ret[1]) :
            /\ ret[1][i].dtstart = Format(call.b)
            /\ ret[1][i].summary =
                   labelledSummary(TestEvent.title,
                                   YearsCountdownName(call.n, WholeDays(call.b, call.a)))

====
